---------------------------- MODULE Spec2Model ----------------------------
(***************************************************************************)
(* Model of the retrieval core of the AI Tutor Agent and of two views:     *)
(*   - chunkText                     (src/backend/server.js)               *)
(*   - VectorStore                   (src/frontend/src/components/         *)
(*                                    DocumentList.jsx, lines 110-217)     *)
(*   - AIService                     (src/unnamed/part_002)                *)
(*   - the express request handlers  (src/backend/server.js)               *)
(*                                                                         *)
(* The specifications of the module:                                       *)
(*   Spec       the server: concurrent request handlers, which yield only  *)
(*              at their awaits, over the process-wide VectorStore;        *)
(*   SpecLive   the server with Firestore configured, under the fairness   *)
(*              of an upload's awaits;                                     *)
(*   SpecChunk  one call of chunkText, one loop iteration per step;        *)
(*   SpecFind   one call of VectorStore.findSimilar on a drawn store;      *)
(*   SpecQuiz, SpecEmbed, SpecCosine                                       *)
(*              one call of generateQuiz, of fallbackEmbedding, of         *)
(*              cosineSimilarity.                                          *)
(*   SpecList   the DocumentList component of the frontend                 *)
(*              (src/frontend/src/components/DocumentList.jsx, 1-108);     *)
(*   SpecScore  the QuizUI component of the frontend (src/unnamed/part_000)*)
(*              with a quiz displayed.                                     *)
(***************************************************************************)
EXTENDS Integers, Sequences, FiniteSets, Bags, TLC

VARIABLES
    vectors,      \* VectorStore.vectors: sequence of records
    documents,    \* VectorStore.documents: the entries [id, numChunks] of the Map
    nextId,       \* number of uuidv4() document ids issued so far
    handlers,     \* the request handlers waiting at an await: a bag of locals
    resp,         \* the response the last step sent, if it sent one
    deleted,      \* history: the document ids DELETE has removed
    initialized,  \* aiService.initialized
    firestore,    \* whether the Firestore mirror is configured
    ck,           \* one call of chunkText (SpecChunk)
    fs,           \* one call of findSimilar (SpecFind)
    call          \* one call of another function, by itself

vars == <<vectors, documents, nextId, handlers, resp, deleted, initialized,
          firestore, ck, fs, call>>

serverVars ==
    <<vectors, documents, nextId, handlers, resp, deleted, initialized, firestore>>

(***************************************************************************)
(* Bounds of the model.                                                    *)
(***************************************************************************)
MaxTextLen == 6     \* longest small text given to chunkText
MaxSpecials == 2    \* characters of a text that are not plain letters
MaxSize == 5        \* largest small chunkSize
MaxOverlap == 5     \* largest small overlap
MaxIter == 8        \* loop iterations of chunkText that are followed

(***************************************************************************)
(* Program constants.                                                      *)
(***************************************************************************)
ChunkSizeDefault == 1000
OverlapDefault == 200
TopKDefault == 5            \* semanticSearch(query, topK = 5, ...)
ChatTopK == 5               \* semanticSearch(message, 5, ...)
QuizTopK == 8               \* semanticSearch(topic, 8, ...)
NumQuestionsDefault == 5    \* const { ..., numQuestions = 5 } = req.body

Max(a, b) == IF a >= b THEN a ELSE b
Min(a, b) == IF a <= b THEN a ELSE b
SetMax(S) == CHOOSE x \in S : \A y \in S : y <= x
SetMin(S) == CHOOSE x \in S : \A y \in S : x <= y

(***************************************************************************)
(* Document text.  chunkText looks at a text only through its length, the  *)
(* places of '.' and '\n', and (in trim) the places of whitespace, so a    *)
(* document text is kept as its length and the index sets (0-based, as in  *)
(* JavaScript) of its '.', '\n' and ' ' characters; every other index      *)
(* holds a character that is neither whitespace nor a terminator.          *)
(***************************************************************************)
Kinds == {"dot", "nl", "sp"}

MkText(n, k) ==
    [len |-> n,
     dot |-> {i \in DOMAIN k : k[i] = "dot"},
     nl  |-> {i \in DOMAIN k : k[i] = "nl"},
     sp  |-> {i \in DOMAIN k : k[i] = "sp"}]

TextsOver(n, marks) ==
    UNION {{MkText(n, k) : k \in [P -> Kinds]} :
              P \in {Q \in SUBSET marks : Cardinality(Q) <= MaxSpecials}}

SmallTexts == UNION {TextsOver(n, 0 .. (n - 1)) : n \in 0 .. MaxTextLen}

ScenarioLens == {900, 1500, 2500}
ScenarioMarks == {0, 500, 501, 1000, 1301, 2499}
ScenarioTexts ==
    UNION {TextsOver(n, {i \in ScenarioMarks : i < n}) : n \in ScenarioLens}

IsSpace(text, i) == i \in (text.nl \cup text.sp)

\* !text: the text is the empty string
IsEmpty(text) == text.len = 0

\* !text || text.trim().length === 0
IsBlank(text) == \A i \in 0 .. (text.len - 1) : IsSpace(text, i)

\* String.prototype.lastIndexOf(ch, fromIndex) for ch = '.' or '\n'
LastIndexOf(text, ch, fromIndex) ==
    LET where == IF ch = "." THEN text.dot ELSE text.nl
        found == {i \in where : i <= Max(fromIndex, 0)}
    IN  IF found = {} THEN -1 ELSE SetMax(found)

\* String.prototype.slice(start, end): the window [from, to) it selects
Slice(text, start, end) ==
    LET clamp(k) == IF k < 0 THEN Max(text.len + k, 0) ELSE Min(k, text.len)
        from == clamp(start)
        to == clamp(end)
    IN  [from |-> from, to |-> Max(from, to)]

RECURSIVE SkipSpaces(_, _, _)
SkipSpaces(text, i, to) ==
    IF i < to /\ IsSpace(text, i) THEN SkipSpaces(text, i + 1, to) ELSE i

RECURSIVE SkipSpacesBack(_, _, _)
SkipSpacesBack(text, from, i) ==
    IF from < i /\ IsSpace(text, i - 1) THEN SkipSpacesBack(text, from, i - 1) ELSE i

\* String.prototype.trim() on a window of the text
Trim(text, w) ==
    LET from == SkipSpaces(text, w.from, w.to)
    IN  [from |-> from, to |-> SkipSpacesBack(text, from, w.to)]

ChunkLength(c) == c.to - c.from

(***************************************************************************)
(* chunkText: the body of one iteration of its while loop, from `start`.   *)
(***************************************************************************)
\* an iteration that restarts one character past the window it sliced
ChunkIterGap(text, chunkSize, overlap, start) ==
    LET end == start + chunkSize
        window == Slice(text, start, end)
        chunk == Trim(text, window)
    IN  [end |-> end,
         window |-> window,
         chunks |-> IF ChunkLength(chunk) > 0 THEN <<chunk>> ELSE <<>>,
         start |-> end + 1]

ChunkIter(text, chunkSize, overlap, start) ==
    LET end0 == start + chunkSize
        lastPeriod == LastIndexOf(text, ".", end0)
        lastNewline == LastIndexOf(text, "\n", end0)
        breakPoint == Max(lastPeriod, lastNewline)
        \* breakPoint > start + chunkSize * 0.5
        end == IF end0 < text.len /\ 2 * breakPoint > 2 * start + chunkSize
               THEN breakPoint + 1
               ELSE end0
        window == Slice(text, start, end)
        chunk == Trim(text, window)
    IN  [end |-> end,
         window |-> window,
         chunks |-> IF ChunkLength(chunk) > 0 THEN <<chunk>> ELSE <<>>,
         start |-> end - overlap]

ChunkInputs ==
    (SmallTexts \X (1 .. MaxSize) \X (0 .. MaxOverlap))
    \cup (ScenarioTexts \X {ChunkSizeDefault} \X {OverlapDefault})

NoChunk == [text |-> MkText(0, <<>>), chunkSize |-> 1, overlap |-> 0,
            start |-> 0, chunks |-> <<>>, iter |-> 0, pc |-> "idle"]

ChunkInit ==
    \E in \in ChunkInputs :
        ck = [text |-> in[1], chunkSize |-> in[2], overlap |-> in[3],
              start |-> 0, chunks |-> <<>>, iter |-> 0, pc |-> "loop"]

\* while (start < text.length) { ... }
ChunkLoop ==
    /\ ck.pc = "loop"
    /\ ck.start < ck.text.len
    /\ ck.iter < MaxIter
    /\ LET it == ChunkIter(ck.text, ck.chunkSize, ck.overlap, ck.start)
       IN  ck' = [ck EXCEPT !.chunks = @ \o it.chunks,
                            !.start = it.start,
                            !.iter = @ + 1]
    /\ UNCHANGED <<serverVars, fs, call>>

\* return chunks
ChunkReturn ==
    /\ ck.pc = "loop"
    /\ ck.start >= ck.text.len
    /\ ck' = [ck EXCEPT !.pc = "done"]
    /\ UNCHANGED <<serverVars, fs, call>>


ChunkNext == ChunkLoop \/ ChunkReturn

(***************************************************************************)
(* Numbers.  Similarities are kept in thousandths (fixed point); NaN is    *)
(* the IEEE not-a-number, which every arithmetic operation propagates.     *)
(***************************************************************************)
NaN == 0 - 1000000

IsNaN(x) == x = NaN

\* an object that is not an array, as an embedding: its `length` is undefined
Undefined == 0 - 2000000
NotAnArray == <<Undefined>>

\* vec.length
Length(vec) == IF vec = NotAnArray THEN Undefined ELSE Len(vec)

\* the passes of `for (let i = 0; i < vec.length; i++)`
Passes(vec) == IF vec = NotAnArray THEN 0 ELSE Len(vec)

Add(x, y) == IF IsNaN(x) \/ IsNaN(y) THEN NaN ELSE x + y
Mul(x, y) == IF IsNaN(x) \/ IsNaN(y) THEN NaN ELSE x * y

\* Math.sqrt on the perfect squares the model's vectors produce
Sqrt(n) == CHOOSE r \in 0 .. n : r * r = n

\* x / y of two numbers, in thousandths; 0 / 0 is NaN
Quot(x, y) ==
    IF IsNaN(x) \/ IsNaN(y) THEN NaN
    ELSE IF y = 0 THEN NaN
    ELSE (x * 1000) \div y

(***************************************************************************)
(* VectorStore                                                             *)
(***************************************************************************)
\* an addVectors that loses the last of the records it is given
addVectorsButLast(store, new) == store \o SubSeq(new, 1, Len(new) - 1)

\* addVectors(vectors): this.vectors.push(...vectors)
addVectors(store, new) == store \o new

\* an addDocument that sets no entry
addDocumentNowhere(docs, docId, numChunks) == docs

\* addDocument(docId, metadata): this.documents.set(docId, {...metadata, id})
addDocument(docs, docId, numChunks) ==
    {e \in docs : e.id # docId} \cup {[id |-> docId, numChunks |-> numChunks]}

\* a getDocument that returns whatever the Map holds
getDocumentAny(docs, docId) == docs

\* getDocument(docId): the entries with that key (none: undefined)
getDocument(docs, docId) == {e \in docs : e.id = docId}

\* getStats()
getStats(store, docs) ==
    [totalVectors |-> Len(store), totalDocuments |-> Cardinality(docs)]

\* a filter that keeps every record
KeepAll(store, docId) == store

\* this.vectors.filter(v => v.documentId !== docId)
KeepOthers(store, docId) ==
    LET other(v) == v.documentId # docId IN SelectSeq(store, other)

\* a deleteDocument that clears the Map
deleteDocumentAll(store, docs, docId) ==
    [vectors |-> KeepOthers(store, docId), documents |-> {}]

\* deleteDocument(docId): both assignments, as one synchronous call
deleteDocument(store, docs, docId) ==
    [vectors |-> KeepOthers(store, docId),
     documents |-> {e \in docs : e.id # docId}]

RECURSIVE SumTo(_, _, _)
SumTo(vecA, vecB, i) ==
    IF i = 0 THEN 0 ELSE Add(SumTo(vecA, vecB, i - 1), Mul(vecA[i], vecB[i]))

Threw == [threw |-> TRUE, value |-> 0]
Value(x) == [threw |-> FALSE, value |-> x]

\* a cosineSimilarity that compares the vectors over their common prefix
cosineSimilarityPrefix(vecA, vecB) ==
    LET n == Min(Passes(vecA), Passes(vecB))
        dotProduct == SumTo(vecA, vecB, n)
        normA == SumTo(vecA, vecA, n)
        normB == SumTo(vecB, vecB, n)
    IN  IF IsNaN(dotProduct) \/ IsNaN(normA) \/ IsNaN(normB)
        THEN Value(NaN)
        ELSE Value(Quot(dotProduct, Sqrt(normA) * Sqrt(normB)))

\* cosineSimilarity(vecA, vecB)
cosineSimilarity(vecA, vecB) ==
    IF Length(vecA) # Length(vecB) THEN Threw
    ELSE LET dotProduct == SumTo(vecA, vecB, Passes(vecA))
             normA == SumTo(vecA, vecA, Passes(vecA))
             normB == SumTo(vecB, vecB, Passes(vecA))
         IN  IF IsNaN(dotProduct) \/ IsNaN(normA) \/ IsNaN(normB)
             THEN Value(NaN)
             ELSE Value(Quot(dotProduct, Sqrt(normA) * Sqrt(normB)))

\* the comparator (a, b) => a.similarity - b.similarity, which sorts ascending
CompareAscending(a, b) ==
    IF IsNaN(a.similarity) \/ IsNaN(b.similarity) THEN 0
    ELSE a.similarity - b.similarity

\* the comparator (a, b) => b.similarity - a.similarity; Array.prototype.sort
\* reads a NaN returned by the comparator as +0
Compare(a, b) ==
    IF IsNaN(a.similarity) \/ IsNaN(b.similarity) THEN 0
    ELSE b.similarity - a.similarity

\* ECMAScript's "consistent comparator": ties are transitive (the
\* comparator's other conditions hold of a difference of numbers)
Consistent(s) ==
    \A i, j, k \in 1 .. Len(s) :
        (Compare(s[i], s[j]) = 0 /\ Compare(s[j], s[k]) = 0)
            => Compare(s[i], s[k]) = 0

InsertAt(s, k, x) == SubSeq(s, 1, k) \o <<x>> \o SubSeq(s, k + 1, Len(s))

RECURSIVE StableSort(_)
StableSort(s) ==
    IF Len(s) <= 1 THEN s
    ELSE LET x == s[Len(s)]
             front == StableSort(SubSeq(s, 1, Len(s) - 1))
             k == Cardinality({i \in 1 .. Len(front) : Compare(front[i], x) <= 0})
         IN  InsertAt(front, k, x)

\* Array.prototype.sort(comparefn): stable for a consistent comparator,
\* implementation-defined order otherwise
SortOutcomes(s) ==
    IF Consistent(s) THEN {StableSort(s)}
    ELSE {[i \in 1 .. Len(s) |-> s[p[i]]] : p \in Permutations(1 .. Len(s))}

\* Array.prototype.slice(0, topK)
SliceTop(s, topK) ==
    SubSeq(s, 1, IF topK < 0 THEN Max(Len(s) + topK, 0) ELSE Min(topK, Len(s)))

Scored(v, sim) ==
    [id |-> v.id, documentId |-> v.documentId, text |-> v.text,
     chunkIndex |-> v.chunkIndex, similarity |-> sim]

Candidates(store, filterDocId) ==
    LET wanted(v) == v.documentId \in filterDocId
    IN  IF filterDocId # {} THEN SelectSeq(store, wanted) ELSE store

\* findSimilar(queryEmbedding, topK, filterDocId): what the call can return.
\* filterDocId is {} for null and {d} for the id d.
findSimilar(store, queryEmbedding, topK, filterDocId) ==
    LET candidates == Candidates(store, filterDocId)
        sims == [i \in 1 .. Len(candidates) |->
                    cosineSimilarity(queryEmbedding, candidates[i].embedding)]
        similarities == [i \in 1 .. Len(candidates) |->
                            Scored(candidates[i], sims[i].value)]
    IN  IF \E i \in 1 .. Len(candidates) : sims[i].threw
        THEN {[threw |-> TRUE, results |-> <<>>]}
        ELSE {[threw |-> FALSE, results |-> SliceTop(sorted, topK)] :
                 sorted \in SortOutcomes(similarities)}


(***************************************************************************)
(* Request strings: sequences of characters.  "NUL" is the character       *)
(* U+0000 and "U+03B8" the character theta.                                *)
(***************************************************************************)
CharCode(c) ==
    CASE c = "NUL" -> 0     [] c = " " -> 32    [] c = "H" -> 72
      [] c = "a" -> 97      [] c = "d" -> 100   [] c = "h" -> 104
      [] c = "i" -> 105     [] c = "n" -> 110   [] c = "s" -> 115
      [] c = "w" -> 119     [] c = "y" -> 121   [] c = "U+03B8" -> 952

\* String.prototype.toLowerCase
ToLowerCase(str) == [i \in 1 .. Len(str) |-> IF str[i] = "H" THEN "h" ELSE str[i]]

\* String.prototype.trim
TrimStr(str) ==
    LET solid == {i \in 1 .. Len(str) : str[i] # " "}
    IN  IF solid = {} THEN <<>> ELSE SubSeq(str, SetMin(solid), SetMax(solid))

\* String.prototype.includes
Includes(str, pat) ==
    \E i \in 1 .. (Len(str) - Len(pat) + 1) : SubSeq(str, i, i + Len(pat) - 1) = pat

\* !value of a request field: the field is absent or the empty string
IsAbsent(field) == \A str \in field : str = <<>>

\* !value || !value.trim() of a request field; {} is a field that is absent
IsMissing(field) == \A str \in field : TrimStr(str) = <<>>

The(field) == CHOOSE x \in field : TRUE

\* a default parameter or destructuring default
OrDefault(field, default) == IF field = {} THEN default ELSE The(field)

(***************************************************************************)
(* AIService                                                               *)
(***************************************************************************)
\* hash = ((hash << 5) - hash) + charCode; hash = hash & hash
\* a 32-bit integer kept as its two 16-bit halves <<high, low>>
HashStep(hash, code) ==
    LET low == hash[2] * 31 + code
        high == hash[1] * 31 + (low \div 65536)
    IN  <<high % 65536, low % 65536>>

RECURSIVE RollingHash(_, _)
RollingHash(str, n) ==
    IF n = 0 THEN <<0, 0>> ELSE HashStep(RollingHash(str, n - 1), CharCode(str[n]))

HashOf(str) == RollingHash(str, Len(str))

\* fallbackEmbedding, from the hash on: component i is sin(hash * (i + 1)) * 0.1,
\* the vector is divided by its norm.  A zero hash makes every component 0
\* and the norm 0, so every component is 0 / 0.  The model keeps two of the
\* 768 dimensions and, for a nonzero hash, one of two unit directions.
fallbackEmbedding(hash) ==
    IF hash = <<0, 0>> THEN <<NaN, NaN>>
    ELSE IF hash[2] % 2 = 0 THEN <<1, 0>> ELSE <<0, 1>>

\* what predictionServiceClient.predict can do: reject; resolve with a
\* response without predictions[0].embeddings, whose read raises a TypeError;
\* resolve with an `embeddings` object that has no `values`; resolve with
\* embeddings.values
Rejected == [kind |-> "rejected", values |-> <<>>]
Malformed == [kind |-> "malformed", values |-> <<>>]
NoValues == [kind |-> "no values", values |-> NotAnArray]
Answer(v) == [kind |-> "answer", values |-> v]

BackendVectors == {<<3, 4>>}
EmbedReplies == {Rejected, Malformed, NoValues} \cup {Answer(v) : v \in BackendVectors}

\* generateEmbedding(text), text given by its hash
generateEmbedding(init, hash, reply) ==
    IF ~init THEN Value(fallbackEmbedding(hash))
    ELSE IF reply.kind \in {"rejected", "malformed"}
    THEN Value(fallbackEmbedding(hash))     \* catch (error)
    ELSE Value(reply.values)    \* embeddings.values || embeddings

\* getHelpfulResponse(message): the canned topic, or the ReferenceError of
\* the default branch, whose template reads a variable `contexts` that is
\* not in scope there
getHelpfulResponse(message) ==
    IF /\ Includes(message, <<"s", "i", "n">>)
       /\ \/ Includes(message, <<"t", "h", "e", "t", "a">>)
          \/ Includes(message, <<"U+03B8">>)
    THEN Value("sine")
    ELSE IF \/ Includes(message, <<"a", "r", "r", "a", "y">>)
            \/ Includes(message, <<"d", "s", "a">>)
            \/ Includes(message, <<"d", "a", "t", "a", " ", "s", "t", "r", "u", "c", "t", "u", "r", "e">>)
    THEN Value("arrays")
    ELSE IF \/ message = <<"h", "i">>
            \/ message = <<"h", "e", "l", "l", "o">>
            \/ message = <<"h", "e", "y">>
    THEN Value("greeting")
    ELSE IF \/ Includes(message, <<"h", "e", "l", "p">>)
            \/ Includes(message, <<"w", "h", "a", "t", " ", "c", "a", "n", " ", "y", "o", "u", " ", "d", "o">>)
    THEN Value("help")
    ELSE Threw

\* a reply: generated by the backend or canned, the canned topic, and the
\* number of passages quoted before it
Reply(kind, topic, quoted) == [kind |-> kind, topic |-> topic, quoted |-> quoted]

\* fallbackChatResponse(message, contexts)
fallbackChatResponse(message, contexts) ==
    LET lowerMessage == TrimStr(ToLowerCase(message))
        helpful == getHelpfulResponse(lowerMessage)
    IN  IF helpful.threw THEN Threw
        ELSE Value(Reply("canned", helpful.value, contexts))

\* generateChatResponse(message, contexts)
generateChatResponse(init, message, contexts, reply) ==
    IF ~init THEN fallbackChatResponse(message, contexts)
    ELSE IF reply.kind = "answer" THEN Value(Reply("generated", "", 0))
    ELSE fallbackChatResponse(message, contexts)

ChatReplies == {Rejected, Malformed, Answer(<<>>)}

\* Math.floor(numQuestions * 0.6)
McqCountFloor(numQuestions) == (3 * numQuestions) \div 5

\* Math.ceil(numQuestions * 0.6)
McqCount(numQuestions) == (3 * numQuestions + 4) \div 5

\* a question keeps its id, its type, the number of its options when it has
\* options, and which option its answer is (0: the answer is free text)
Mcq(i) == [id |-> i, type |-> "mcq", options |-> {4}, answer |-> 1]
Short(i) == [id |-> i, type |-> "short", options |-> {}, answer |-> 0]

\* fallbackQuizGeneration(topic, contexts, numQuestions)
fallbackQuizGeneration(numQuestions) ==
    [i \in 1 .. numQuestions |-> IF i <= McqCount(numQuestions) THEN Mcq(i) ELSE Short(i)]

\* the generated text: no [...] in it, a [...] that JSON.parse rejects, or
\* a [...] that parses to an array
NoArray == [kind |-> "noarray", values |-> <<>>]
BadJson == [kind |-> "badjson", values |-> <<>>]
BackendQuizzes == {<<Mcq(1), Short(2)>>, <<Short(1), Short(1)>>}
QuizReplies ==
    {Rejected, Malformed, NoArray, BadJson} \cup {Answer(q) : q \in BackendQuizzes}

\* generateQuiz(topic, contexts, numQuestions)
generateQuiz(init, numQuestions, reply) ==
    IF ~init THEN Value(fallbackQuizGeneration(numQuestions))
    ELSE IF reply.kind = "answer" THEN Value(reply.values)
    ELSE Value(fallbackQuizGeneration(numQuestions))


(***************************************************************************)
(* chunkText as a whole: the chunks of the loop run from start = 0.        *)
(***************************************************************************)
RECURSIVE ChunksFrom(_, _, _, _)
ChunksFrom(text, chunkSize, overlap, start) ==
    IF start >= text.len THEN <<>>
    ELSE LET it == ChunkIter(text, chunkSize, overlap, start)
         IN  it.chunks \o ChunksFrom(text, chunkSize, overlap, it.start)

chunkText(text, chunkSize, overlap) == ChunksFrom(text, chunkSize, overlap, 0)

\* the windows text.slice(start, end) of the loop's iterations, in order
RECURSIVE WindowsFrom(_, _, _, _)
WindowsFrom(text, chunkSize, overlap, start) ==
    IF start >= text.len THEN <<>>
    ELSE LET it == ChunkIter(text, chunkSize, overlap, start)
         IN  <<it.window>> \o WindowsFrom(text, chunkSize, overlap, it.start)

Windows(text, chunkSize, overlap) == WindowsFrom(text, chunkSize, overlap, 0)

(***************************************************************************)
(* The server.  A handler runs from one await to the next as one step; the *)
(* handlers waiting at an await are a bag of their local variables.        *)
(* Firestore is configured or not (firestore = null), as the credentials   *)
(* the server starts with decide.                                          *)
(***************************************************************************)
MaxInFlight == 2    \* request handlers in flight at once
MaxUploads == 2     \* uploads accepted in a run
MaxReaders == 1     \* of them search, chat and quiz handlers, which only read

\* what pdf(dataBuffer) can extract: a text of spaces, a text of one chunk,
\* a text of two chunks
UploadTexts ==
    {MkText(2, [i \in {0, 1} |-> "sp"]), MkText(300, <<>>), MkText(1500, <<>>)}

\* the rolling hash of a chunk's characters, which the text's shape leaves open
ChunkHashes == {<<0, 1>>}

\* the message of a chat request: absent, "", "  ", " Hi", "why"
Messages == {{}, {<<>>}, {<<" ", " ">>}, {<<" ", "H", "i">>}, {<<"w", "h", "y">>}}

\* the query of a search request and the topic of a quiz request:
\* absent, "", "  ", "why"
Queries == {{}, {<<>>}, {<<" ", " ">>}, {<<"w", "h", "y">>}}

TopKs == {{}, {-1}}

DocIds == 1 .. (MaxUploads + 1)

DocFilters == {{}, {1}}

NumQuestions == {{}, {3}}

\* the local variables of a handler; a variable the handler has not set yet,
\* or will not read again, has the value it has here
Locals == [kind |-> "", pc |-> "", str |-> <<>>, topK |-> 0, filter |-> {},
           num |-> 0, docId |-> 0, chunks |-> <<>>, vecs |-> <<>>, contexts |-> 0,
           out |-> [kind |-> "none", status |-> 0, error |-> "", body |-> <<>>]]

Response(kind, status, error, body) ==
    [kind |-> kind, status |-> status, error |-> error, body |-> body]

NoResponse == Response("none", 0, "", <<>>)

NoFind == [store |-> <<>>, query |-> <<>>, topK |-> 0, filter |-> {}, pc |-> "idle",
           out |-> [threw |-> FALSE, results |-> <<>>]]

NoCall == [fn |-> "", pc |-> "idle"]

Init ==
    /\ vectors = <<>>
    /\ documents = {}
    /\ nextId = 0
    /\ handlers = EmptyBag
    /\ resp = NoResponse
    /\ deleted = {}
    /\ initialized \in BOOLEAN
    /\ firestore \in BOOLEAN
    /\ ck = NoChunk
    /\ fs = NoFind
    /\ call = NoCall

InFlight == BagToSet(handlers)

\* the server takes a request while fewer than MaxInFlight are in flight
Accepts == BagCardinality(handlers) < MaxInFlight

\* the search, chat and quiz handlers in flight
Readers == [h \in {r \in InFlight : r.kind # "upload"} |-> CopiesIn(h, handlers)]

AcceptsReader == Accepts /\ BagCardinality(Readers) < MaxReaders

\* a handler that has just begun waits at its first await
Begin(h) ==
    /\ handlers' = handlers (+) SetToBag({h})
    /\ resp' = NoResponse

\* a handler that has just begun sends its response and ends
Refuse(response) ==
    /\ handlers' = handlers
    /\ resp' = response

\* handler h sends its response and ends
Send(h, response) ==
    /\ handlers' = handlers (-) SetToBag({h})
    /\ resp' = response

\* handler h waits at its next await with the local variables h2
Await(h, h2) ==
    /\ handlers' = (handlers (-) SetToBag({h})) (+) SetToBag({h2})
    /\ resp' = NoResponse

\* if (firestore) { try { await <the mirror write> } catch (err) { warn } }
\* and then the response: with Firestore configured handler h waits for the
\* write to settle, holding its response
MirrorThenSend(h, response) ==
    IF firestore
    THEN Await(h, [Locals EXCEPT !.kind = h.kind, !.pc = "mirror", !.out = response])
    ELSE Send(h, response)

\* the mirror write of handler h settles, fulfilled or rejected (a rejection
\* is caught and logged), and h sends the response it held
MirrorSettled(h) ==
    /\ h.pc = "mirror"
    /\ \E settled \in {"fulfilled", "rejected"} : Send(h, h.out)
    /\ UNCHANGED <<vectors, documents, nextId, deleted, initialized, firestore, ck, fs, call>>

\* POST /upload without a file
UploadNoFile ==
    /\ Accepts
    /\ Refuse(Response("upload", 400, "No file uploaded", <<>>))
    /\ UNCHANGED <<vectors, documents, nextId, deleted, initialized, firestore, ck, fs, call>>

UploadAtPdf == [Locals EXCEPT !.kind = "upload", !.pc = "pdf"]

\* POST /upload, processPDF up to `await pdf(dataBuffer)`
UploadBegin ==
    /\ Accepts
    /\ nextId + CopiesIn(UploadAtPdf, handlers) < MaxUploads
    /\ Begin(UploadAtPdf)
    /\ UNCHANGED <<vectors, documents, nextId, deleted, initialized, firestore, ck, fs, call>>

\* a vector record of processPDF
VectorRecord(docId, i, embedding, chunk) ==
    [id |-> <<docId, i>>, documentId |-> docId, embedding |-> embedding,
     text |-> chunk, chunkIndex |-> i]

\* processPDF, step 4: addVectors and addDocument, with no await between them
StoreDocument(store, docs, docId, vecs, numChunks) ==
    [vectors |-> addVectors(store, vecs),
     documents |-> addDocument(docs, docId, numChunks)]

\* processPDF from the result of pdf() to the first generateEmbedding
UploadParsed(h) ==
    /\ h.kind = "upload"
    /\ h.pc = "pdf"
    /\ \/ /\ Send(h, Response("upload", 500, "pdf failed", <<>>))
          /\ UNCHANGED <<vectors, documents, nextId>>
       \/ \E text \in UploadTexts :
            IF IsBlank(text)
            THEN /\ Send(h, Response("upload", 500, "PDF contains no extractable text", <<>>))
                 /\ UNCHANGED <<vectors, documents, nextId>>
            ELSE LET chunks == chunkText(text, ChunkSizeDefault, OverlapDefault)
                     docId == nextId + 1     \* uuidv4(): an id never issued before
                 IN  /\ nextId' = nextId + 1
                     /\ IF Len(chunks) = 0
                        THEN LET st == StoreDocument(vectors, documents, docId, <<>>, 0)
                             IN  /\ vectors' = st.vectors
                                 /\ documents' = st.documents
                                 /\ MirrorThenSend(h, Response("upload", 200, "", <<docId, 0>>))
                        ELSE /\ Await(h, [h EXCEPT !.pc = "embed",
                                            !.docId = docId, !.chunks = chunks])
                             /\ UNCHANGED <<vectors, documents>>
    /\ UNCHANGED <<deleted, initialized, firestore, ck, fs, call>>

\* processPDF from the result of one generateEmbedding to the next await:
\* the next generateEmbedding, or step 4 and the response
UploadEmbedded(h) ==
    /\ h.kind = "upload"
    /\ h.pc = "embed"
    /\ \E hash \in ChunkHashes, reply \in EmbedReplies :
         LET i == Len(h.vecs)
             embedding == generateEmbedding(initialized, hash, reply)
             vecs == Append(h.vecs, VectorRecord(h.docId, i, embedding.value, h.chunks[i + 1]))
         IN  IF embedding.threw
             THEN /\ Send(h, Response("upload", 500, "embedding failed", <<>>))
                  /\ UNCHANGED <<vectors, documents>>
             ELSE IF Len(vecs) < Len(h.chunks)
             THEN /\ Await(h, [h EXCEPT !.vecs = vecs])
                  /\ UNCHANGED <<vectors, documents>>
             ELSE LET st == StoreDocument(vectors, documents, h.docId, vecs, Len(h.chunks))
                  IN  /\ vectors' = st.vectors
                      /\ documents' = st.documents
                      /\ MirrorThenSend(h, Response("upload", 200, "", <<h.docId, Len(h.chunks)>>))
    /\ UNCHANGED <<nextId, deleted, initialized, firestore, ck, fs, call>>

\* semanticSearch from the result of generateEmbedding(query) on: what
\* vectorStore.findSimilar can return, or the error that ends the search
semanticSearch(init, store, query, topK, docId, reply) ==
    LET queryEmbedding == generateEmbedding(init, HashOf(query), reply)
    IN  IF queryEmbedding.threw
        THEN {[threw |-> TRUE, results |-> <<>>]}
        ELSE findSimilar(store, queryEmbedding.value, topK, docId)

\* POST /search up to `await aiService.generateEmbedding(query)`
SearchBegin ==
    /\ AcceptsReader
    /\ \E query \in Queries, topK \in TopKs, docId \in DocFilters :
         IF IsMissing(query)
         THEN Refuse(Response("search", 400, "Query is required", <<>>))
         ELSE Begin([Locals EXCEPT !.kind = "search", !.pc = "embed",
                       !.str = The(query),
                       !.topK = OrDefault(topK, TopKDefault),
                       !.filter = docId])
    /\ UNCHANGED <<vectors, documents, nextId, deleted, initialized, firestore, ck, fs, call>>

\* POST /search from the query embedding to the response, which has the
\* results; the model keeps their number
SearchEmbedded(h) ==
    /\ h.kind = "search"
    /\ h.pc = "embed"
    /\ \E reply \in EmbedReplies :
         \E out \in semanticSearch(initialized, vectors, h.str, h.topK, h.filter, reply) :
           IF out.threw
           THEN Send(h, Response("search", 500, "search failed", <<>>))
           ELSE Send(h, Response("search", 200, "", Len(out.results)))
    /\ UNCHANGED <<vectors, documents, nextId, deleted, initialized, firestore, ck, fs, call>>

\* POST /chat up to the await in semanticSearch
ChatBegin ==
    /\ AcceptsReader
    /\ \E message \in Messages, docId \in DocFilters :
         IF IsMissing(message)
         THEN Refuse(Response("chat", 400, "Message is required", <<>>))
         ELSE Begin([Locals EXCEPT !.kind = "chat", !.pc = "embed",
                       !.str = The(message),
                       !.topK = ChatTopK,
                       !.filter = docId])
    /\ UNCHANGED <<vectors, documents, nextId, deleted, initialized, firestore, ck, fs, call>>

\* the contexts a handler makes of the search results; the model keeps
\* their number
Contexts(results) == Len(results)

\* POST /chat from the query embedding to `await generateChatResponse`
ChatEmbedded(h) ==
    /\ h.kind = "chat"
    /\ h.pc = "embed"
    /\ \E reply \in EmbedReplies :
         \E out \in semanticSearch(initialized, vectors, h.str, h.topK, h.filter, reply) :
           IF out.threw
           THEN Send(h, Response("chat", 500, "search failed", <<>>))
           ELSE Await(h, [Locals EXCEPT !.kind = "chat", !.pc = "generate",
                            !.str = h.str,
                            !.contexts = Contexts(out.results)])
    /\ UNCHANGED <<vectors, documents, nextId, deleted, initialized, firestore, ck, fs, call>>

\* POST /chat from the result of generateChatResponse to the response
ChatGenerated(h) ==
    /\ h.kind = "chat"
    /\ h.pc = "generate"
    /\ \E reply \in ChatReplies :
         LET answer == generateChatResponse(initialized, h.str, h.contexts, reply)
         IN  IF answer.threw
             THEN Send(h, Response("chat", 500, "contexts is not defined", <<>>))
             ELSE MirrorThenSend(h, Response("chat", 200, "",
                       [reply |-> answer.value, sources |-> h.contexts,
                        usedRAG |-> h.contexts > 0]))
    /\ UNCHANGED <<vectors, documents, nextId, deleted, initialized, firestore, ck, fs, call>>

\* POST /generate-quiz up to the await in semanticSearch
QuizBegin ==
    /\ AcceptsReader
    /\ \E topic \in Queries, docId \in DocFilters, numQuestions \in NumQuestions :
         IF IsMissing(topic)
         THEN Refuse(Response("quiz", 400, "Topic is required", <<>>))
         ELSE Begin([Locals EXCEPT !.kind = "quiz", !.pc = "embed",
                       !.str = The(topic),
                       !.topK = QuizTopK,
                       !.filter = docId,
                       !.num = OrDefault(numQuestions, NumQuestionsDefault)])
    /\ UNCHANGED <<vectors, documents, nextId, deleted, initialized, firestore, ck, fs, call>>

\* POST /generate-quiz from the topic embedding to `await generateQuiz`
QuizEmbedded(h) ==
    /\ h.kind = "quiz"
    /\ h.pc = "embed"
    /\ \E reply \in EmbedReplies :
         \E out \in semanticSearch(initialized, vectors, h.str, h.topK, h.filter, reply) :
           IF out.threw
           THEN Send(h, Response("quiz", 500, "search failed", <<>>))
           ELSE Await(h, [Locals EXCEPT !.kind = "quiz", !.pc = "generate",
                            !.num = h.num,
                            !.contexts = Contexts(out.results)])
    /\ UNCHANGED <<vectors, documents, nextId, deleted, initialized, firestore, ck, fs, call>>

\* POST /generate-quiz from the result of generateQuiz to the response
QuizGenerated(h) ==
    /\ h.kind = "quiz"
    /\ h.pc = "generate"
    /\ \E reply \in QuizReplies :
         LET questions == generateQuiz(initialized, h.num, reply)
         IN  IF questions.threw
             THEN Send(h, Response("quiz", 500, "quiz failed", <<>>))
             ELSE MirrorThenSend(h, Response("quiz", 200, "",
                       [questions |-> questions.value, sources |-> h.contexts]))
    /\ UNCHANGED <<vectors, documents, nextId, deleted, initialized, firestore, ck, fs, call>>

\* DELETE /documents/:docId, a handler without an await; of either response
\* the model keeps the id the request named
DeleteDocument(docId) ==
    /\ IF getDocument(documents, docId) = {}
       THEN /\ resp' = Response("delete", 404, "Document not found", <<docId>>)
            /\ UNCHANGED <<vectors, documents, deleted>>
       ELSE LET st == deleteDocument(vectors, documents, docId)
            IN  /\ vectors' = st.vectors
                /\ documents' = st.documents
                /\ deleted' = deleted \cup {docId}
                /\ resp' = Response("delete", 200, "", <<docId>>)
    /\ UNCHANGED <<nextId, handlers, initialized, firestore, ck, fs, call>>

\* GET /documents
ListDocuments ==
    /\ resp' = Response("list", 200, "",
                 [documents |-> documents,
                  total |-> getStats(vectors, documents).totalDocuments])
    /\ UNCHANGED <<vectors, documents, nextId, handlers, deleted, initialized, firestore, ck, fs, call>>

\* GET /health
Health ==
    /\ resp' = Response("health", 200, "",
                 [vectorStore |-> getStats(vectors, documents), vertexAI |-> initialized])
    /\ UNCHANGED <<vectors, documents, nextId, handlers, deleted, initialized, firestore, ck, fs, call>>

Next ==
    \/ UploadNoFile
    \/ UploadBegin
    \/ \E h \in InFlight : UploadParsed(h)
    \/ \E h \in InFlight : UploadEmbedded(h)
    \/ SearchBegin
    \/ \E h \in InFlight : SearchEmbedded(h)
    \/ ChatBegin
    \/ \E h \in InFlight : ChatEmbedded(h)
    \/ \E h \in InFlight : ChatGenerated(h)
    \/ QuizBegin
    \/ \E h \in InFlight : QuizEmbedded(h)
    \/ \E h \in InFlight : QuizGenerated(h)
    \/ \E docId \in DocIds : DeleteDocument(docId)
    \/ ListDocuments
    \/ Health
    \/ \E h \in InFlight : MirrorSettled(h)

Spec == Init /\ [][Next]_vars

(***************************************************************************)
(* SpecLive: the server with the progress an upload's awaits are given,    *)
(* started with Firestore configured and without the Vertex AI backend.    *)
(* The promises of pdf() and of generateEmbedding settle, so an upload     *)
(* waiting for one of them takes its next step; nothing makes a Firestore  *)
(* write settle, so MirrorSettled is under no fairness condition.          *)
(***************************************************************************)
InitLive ==
    /\ vectors = <<>>
    /\ documents = {}
    /\ nextId = 0
    /\ handlers = EmptyBag
    /\ resp = NoResponse
    /\ deleted = {}
    /\ initialized = FALSE
    /\ firestore = TRUE
    /\ ck = NoChunk
    /\ fs = NoFind
    /\ call = NoCall

Fairness ==
    /\ WF_vars(\E h \in InFlight : UploadParsed(h))
    /\ WF_vars(\E h \in InFlight : UploadEmbedded(h))

SpecLive == InitLive /\ [][Next]_vars /\ Fairness

(***************************************************************************)
(* SpecChunk: one call of chunkText.                                       *)
(***************************************************************************)
InitChunk ==
    /\ vectors = <<>>
    /\ documents = {}
    /\ nextId = 0
    /\ handlers = EmptyBag
    /\ resp = NoResponse
    /\ deleted = {}
    /\ initialized = FALSE
    /\ firestore = FALSE
    /\ ChunkInit
    /\ fs = NoFind
    /\ call = NoCall

SpecChunk == InitChunk /\ [][ChunkNext]_vars

(***************************************************************************)
(* SpecFind: one call of findSimilar on a store of whole documents.        *)
(***************************************************************************)
MaxRecords == 4     \* records in the store

\* embeddings of records: three directions, a zero-norm fallback vector,
\* a vector of another length
FindVectors == {<<1, 0>>, <<0, 1>>, <<3, 4>>, <<NaN, NaN>>, <<1>>}

FindQueries == {<<1, 0>>, <<3, 4>>, <<NaN, NaN>>}

FindTopKs == {-1, 0, 2, TopKDefault}

FindFilters == {{}, {1}}

\* the records processPDF stores for a document, given their embeddings
Block(docId, embeddings) ==
    [i \in 1 .. Len(embeddings) |->
        VectorRecord(docId, i - 1, embeddings[i], [from |-> 0, to |-> 1])]

Embeddings(n) == UNION {[1 .. k -> FindVectors] : k \in 0 .. n}

\* stores of two documents, each document's records together
FindStores ==
    UNION {{Block(a, e1) \o Block(3 - a, e2) :
               a \in {1, 2}, e2 \in Embeddings(MaxRecords - Len(e1))} :
           e1 \in Embeddings(MaxRecords)}

FindInit ==
    \E store \in FindStores,
       query \in FindQueries, topK \in FindTopKs, filter \in FindFilters :
        fs = [store |-> store, query |-> query, topK |-> topK, filter |-> filter,
              pc |-> "call", out |-> [threw |-> FALSE, results |-> <<>>]]

\* vectorStore.findSimilar(queryEmbedding, topK, filterDocId)
FindCall ==
    /\ fs.pc = "call"
    /\ \E out \in findSimilar(fs.store, fs.query, fs.topK, fs.filter) :
         fs' = [fs EXCEPT !.out = out, !.pc = "done"]
    /\ UNCHANGED <<serverVars, ck, call>>

InitFind ==
    /\ vectors = <<>>
    /\ documents = {}
    /\ nextId = 0
    /\ handlers = EmptyBag
    /\ resp = NoResponse
    /\ deleted = {}
    /\ initialized = FALSE
    /\ firestore = FALSE
    /\ ck = NoChunk
    /\ FindInit
    /\ call = NoCall

SpecFind == InitFind /\ [][FindCall]_vars

(***************************************************************************)
(* SpecQuiz: one call of generateQuiz.                                     *)
(***************************************************************************)
MaxQuestions == 10      \* largest numQuestions of a call

QuizInit ==
    \E init \in BOOLEAN, numQuestions \in 0 .. MaxQuestions, reply \in QuizReplies :
        call = [fn |-> "generateQuiz", pc |-> "call", init |-> init,
                num |-> numQuestions, reply |-> reply, out |-> Threw]

\* aiService.generateQuiz(topic, contexts, numQuestions)
QuizCall ==
    /\ call.fn = "generateQuiz"
    /\ call.pc = "call"
    /\ call' = [call EXCEPT !.out = generateQuiz(call.init, call.num, call.reply),
                            !.pc = "done"]
    /\ UNCHANGED <<serverVars, ck, fs>>

InitQuiz ==
    /\ vectors = <<>>
    /\ documents = {}
    /\ nextId = 0
    /\ handlers = EmptyBag
    /\ resp = NoResponse
    /\ deleted = {}
    /\ initialized = FALSE
    /\ firestore = FALSE
    /\ ck = NoChunk
    /\ fs = NoFind
    /\ QuizInit

SpecQuiz == InitQuiz /\ [][QuizCall]_vars

(***************************************************************************)
(* SpecEmbed: one call of fallbackEmbedding.                               *)
(***************************************************************************)
MaxStrLen == 2      \* longest text given to fallbackEmbedding

Alphabet == {"NUL", " ", "H", "a", "d", "h", "i", "n", "s", "w", "y", "U+03B8"}

Strings == UNION {[1 .. n -> Alphabet] : n \in 0 .. MaxStrLen}

EmbedInit ==
    \E text \in Strings :
        call = [fn |-> "fallbackEmbedding", pc |-> "call", text |-> text, out |-> <<>>]

\* aiService.fallbackEmbedding(text)
EmbedCall ==
    /\ call.fn = "fallbackEmbedding"
    /\ call.pc = "call"
    /\ call' = [call EXCEPT !.out = fallbackEmbedding(HashOf(call.text)),
                            !.pc = "done"]
    /\ UNCHANGED <<serverVars, ck, fs>>

InitEmbed ==
    /\ vectors = <<>>
    /\ documents = {}
    /\ nextId = 0
    /\ handlers = EmptyBag
    /\ resp = NoResponse
    /\ deleted = {}
    /\ initialized = FALSE
    /\ firestore = FALSE
    /\ ck = NoChunk
    /\ fs = NoFind
    /\ EmbedInit

SpecEmbed == InitEmbed /\ [][EmbedCall]_vars

(***************************************************************************)
(* SpecCosine: one call of VectorStore.cosineSimilarity.                   *)
(***************************************************************************)
\* vectors of 0, 1, 2 and 3 components, and an object that is no array
CosineVectors == FindVectors \cup {<<>>, <<0, 0>>, <<1, 0, 0>>, NotAnArray}

CosineInit ==
    \E vecA \in CosineVectors, vecB \in CosineVectors :
        call = [fn |-> "cosineSimilarity", pc |-> "call",
                vecA |-> vecA, vecB |-> vecB, out |-> Value(0)]

\* vectorStore.cosineSimilarity(vecA, vecB)
CosineCall ==
    /\ call.fn = "cosineSimilarity"
    /\ call.pc = "call"
    /\ call' = [call EXCEPT !.out = cosineSimilarity(call.vecA, call.vecB),
                            !.pc = "done"]
    /\ UNCHANGED <<serverVars, ck, fs>>

InitCosine ==
    /\ vectors = <<>>
    /\ documents = {}
    /\ nextId = 0
    /\ handlers = EmptyBag
    /\ resp = NoResponse
    /\ deleted = {}
    /\ initialized = FALSE
    /\ firestore = FALSE
    /\ ck = NoChunk
    /\ fs = NoFind
    /\ CosineInit

SpecCosine == InitCosine /\ [][CosineCall]_vars

(***************************************************************************)
(* SpecList: the DocumentList component of the frontend, over the          *)
(* documents the server holds.  The component's state is `documents`, the  *)
(* list it shows; an async handler runs from one await to the next as one  *)
(* step and reads the `documents` of the render in which it was started.   *)
(***************************************************************************)
NumListed == 3      \* documents on the server when the component mounts
MaxDeletes == 2     \* delete requests in flight at once

\* the list GET /documents answers with
Listing(server) ==
    LET held(d) == d \in server
    IN  SelectSeq([i \in 1 .. NumListed |-> i], held)

\* documents.filter(doc => doc.id !== docId)
Without(docs, docId) ==
    LET other(d) == d # docId IN SelectSeq(docs, other)

\* after the fetchDocuments of the mount effect
ListInit ==
    call = [fn |-> "DocumentList",
            documents |-> Listing(1 .. NumListed),  \* the component's state
            server |-> 1 .. NumListed,              \* the ids the server holds
            deletes |-> {},         \* deleteDocument calls at their await
            fetch |-> <<"idle">>,   \* the fetchDocuments call, if one runs
            succeeded |-> {}]       \* history: ids deleted since the last refresh

\* a click on the delete button of a document shown, confirmed:
\* deleteDocument(docId) up to `await axios.delete(...)`
ListDeleteBegin ==
    /\ call.fn = "DocumentList"
    /\ Cardinality(call.deletes) < MaxDeletes
    /\ \E i \in 1 .. Len(call.documents) :
         LET request == [docId |-> call.documents[i], documents |-> call.documents]
         IN  /\ request \notin call.deletes
             /\ call' = [call EXCEPT !.deletes = @ \cup {request}]
    /\ UNCHANGED <<serverVars, ck, fs>>

\* the server answers a delete request and deleteDocument goes on: 200, and
\* the list becomes the handler's own `documents` without docId; or 404, and
\* the catch block alerts
ListDeleteResolved ==
    /\ call.fn = "DocumentList"
    /\ \E request \in call.deletes :
         IF request.docId \in call.server
         THEN call' = [call EXCEPT
                         !.server = @ \ {request.docId},
                         !.deletes = @ \ {request},
                         !.documents = Without(request.documents, request.docId),
                         !.succeeded = @ \cup {request.docId}]
         ELSE call' = [call EXCEPT !.deletes = @ \ {request}]
    /\ UNCHANGED <<serverVars, ck, fs>>

\* a click on Refresh: fetchDocuments up to `await axios.get(...)`
ListFetchBegin ==
    /\ call.fn = "DocumentList"
    /\ call.fetch = <<"idle">>
    /\ call' = [call EXCEPT !.fetch = <<"requested">>]
    /\ UNCHANGED <<serverVars, ck, fs>>

\* the server answers GET /documents with the documents it holds
ListFetchServed ==
    /\ call.fn = "DocumentList"
    /\ call.fetch = <<"requested">>
    /\ call' = [call EXCEPT !.fetch = <<"served", Listing(call.server)>>]
    /\ UNCHANGED <<serverVars, ck, fs>>

\* the response arrives: setDocuments(docs)
ListFetchResolved ==
    /\ call.fn = "DocumentList"
    /\ call.fetch[1] = "served"
    /\ call' = [call EXCEPT !.documents = call.fetch[2],
                            !.fetch = <<"idle">>,
                            !.succeeded = {}]
    /\ UNCHANGED <<serverVars, ck, fs>>

\* the request fails: the catch block of fetchDocuments, setDocuments([])
ListFetchFailed ==
    /\ call.fn = "DocumentList"
    /\ call.fetch = <<"requested">>
    /\ call' = [call EXCEPT !.documents = <<>>,
                            !.fetch = <<"idle">>,
                            !.succeeded = {}]
    /\ UNCHANGED <<serverVars, ck, fs>>

ListNext ==
    \/ ListDeleteBegin
    \/ ListDeleteResolved
    \/ ListFetchBegin
    \/ ListFetchServed
    \/ ListFetchResolved
    \/ ListFetchFailed

InitList ==
    /\ vectors = <<>>
    /\ documents = {}
    /\ nextId = 0
    /\ handlers = EmptyBag
    /\ resp = NoResponse
    /\ deleted = {}
    /\ initialized = FALSE
    /\ firestore = FALSE
    /\ ck = NoChunk
    /\ fs = NoFind
    /\ ListInit

SpecList == InitList /\ [][ListNext]_vars

(***************************************************************************)
(* SpecScore: the QuizUI component of the frontend once generateQuiz has   *)
(* set `quiz`: the user answers the questions, submits, and the score is   *)
(* rendered.                                                               *)
(***************************************************************************)
MaxShown == 2       \* questions of the displayed quiz
QuestionIds == 1 .. 2

\* what an answer can be: a question's `answer`, an option, a typed text
ScoreAnswers == {<<"h">>, <<"H">>, <<"h", " ">>, <<"a">>}

\* the quizzes displayed; a question's `answer` field is absent, here {},
\* or a string
ShownQuizzes ==
    LET AnswerFields == {{}} \cup {{str} : str \in ScoreAnswers}
        ShownQuestions == [id : QuestionIds, answer : AnswerFields]
    IN  UNION {[1 .. n -> ShownQuestions] : n \in 0 .. MaxShown}

\* value?.trim().toLowerCase(); undefined, here {}, when the value is
Normalised(field) == {ToLowerCase(TrimStr(str)) : str \in field}

\* QuizUI.getScore() for a quiz that is set: Math.round(correct / length * 100),
\* where 0 / 0 is NaN and Math.round(NaN) is NaN
getScore(questions, userAnswers) ==
    LET right == {i \in 1 .. Len(questions) :
                    Normalised(userAnswers[questions[i].id])
                        = Normalised(questions[i].answer)}
        correct == Cardinality(right)
        length == Len(questions)
    IN  IF length = 0 THEN NaN ELSE (200 * correct + length) \div (2 * length)

ScoreInit ==
    \E questions \in ShownQuizzes :
        call = [fn |-> "QuizUI", questions |-> questions,
                userAnswers |-> [id \in QuestionIds |-> {}],
                showResults |-> FALSE]

\* handleAnswerChange(questionId, answer); the inputs are those of the
\* questions shown and are disabled once the results are
ScoreAnswerChange ==
    /\ call.fn = "QuizUI"
    /\ ~call.showResults
    /\ \E i \in 1 .. Len(call.questions), answer \in ScoreAnswers :
         call' = [call EXCEPT !.userAnswers[call.questions[i].id] = {answer}]
    /\ UNCHANGED <<serverVars, ck, fs>>

\* submitQuiz(); the button is rendered while `quiz && quiz.questions`
ScoreSubmit ==
    /\ call.fn = "QuizUI"
    /\ ~call.showResults
    /\ call' = [call EXCEPT !.showResults = TRUE]
    /\ UNCHANGED <<serverVars, ck, fs>>

ScoreNext ==
    \/ ScoreAnswerChange
    \/ ScoreSubmit

InitScore ==
    /\ vectors = <<>>
    /\ documents = {}
    /\ nextId = 0
    /\ handlers = EmptyBag
    /\ resp = NoResponse
    /\ deleted = {}
    /\ initialized = FALSE
    /\ firestore = FALSE
    /\ ck = NoChunk
    /\ fs = NoFind
    /\ ScoreInit

SpecScore == InitScore /\ [][ScoreNext]_vars

(***************************************************************************)
(* Properties of chunkText, under SpecChunk.                               *)
(***************************************************************************)
\* one iteration of the while loop of chunkText
Iterates == ck.pc = "loop" /\ ck'.iter = ck.iter + 1

\* C8: whenever 0 <= overlap < size, every iteration of chunk's loop leaves
\* the start index strictly greater than it found it, so the call ends.
C8_StartIncreases ==
    [][(Iterates /\ 0 <= ck.overlap /\ ck.overlap < ck.chunkSize)
          => ck'.start > ck.start]_vars

\* C9: a call with overlap >= size is rejected or has its overlap clamped,
\* so its loop too moves the start index forward on every iteration and the
\* call ends.
C9_OverlapClamped ==
    [][(Iterates /\ ck.overlap >= ck.chunkSize) => ck'.start > ck.start]_vars

IsTrimmed(text, c) ==
    /\ ChunkLength(c) > 0
    /\ ~IsSpace(text, c.from)
    /\ ~IsSpace(text, c.to - 1)

\* C10: chunking a 2500-character non-blank text with size 1000 and overlap
\* 200 returns exactly 3 chunks, each of them trimmed and non-empty.
C10_ThreeChunks ==
    (/\ ck.pc = "done"
     /\ ck.text.len = 2500
     /\ ~IsBlank(ck.text)
     /\ ck.chunkSize = ChunkSizeDefault
     /\ ck.overlap = OverlapDefault)
        => /\ Len(ck.chunks) = 3
           /\ \A i \in 1 .. Len(ck.chunks) : IsTrimmed(ck.text, ck.chunks[i])

\* C11: for every non-blank text shorter than size (and 0 <= overlap < size),
\* chunkText returns exactly one chunk.
C11_OneChunk ==
    (/\ ck.pc = "done"
     /\ ~IsBlank(ck.text)
     /\ ck.text.len < ck.chunkSize
     /\ 0 <= ck.overlap
     /\ ck.overlap < ck.chunkSize)
        => Len(ck.chunks) = 1

\* index i of the text lies in the window or chunk w
Within(i, w) == w.from <= i /\ i < w.to

DefaultCallDone ==
    /\ ck.pc = "done"
    /\ ck.chunkSize = ChunkSizeDefault
    /\ ck.overlap = OverlapDefault

\* C12: chunk coverage.  For every text chunked with the default size and
\* overlap, every character of the text lies in at least one window the loop
\* slices, and every non-whitespace character lies in at least one returned
\* chunk.
C12_Coverage ==
    DefaultCallDone =>
        LET windows == Windows(ck.text, ck.chunkSize, ck.overlap)
        IN  \A i \in 0 .. (ck.text.len - 1) :
              /\ \E k \in 1 .. Len(windows) : Within(i, windows[k])
              /\ ~IsSpace(ck.text, i) =>
                    \E k \in 1 .. Len(ck.chunks) : Within(i, ck.chunks[k])

\* a finished default call on a 2500-character text that begins with a space:
\* the first window was snapped to the period at 501 and trimmed in front
C12_Witness ==
    /\ DefaultCallDone
    /\ ck.text.len = 2500
    /\ 0 \in ck.text.sp
    /\ Windows(ck.text, ck.chunkSize, ck.overlap)[1] = [from |-> 0, to |-> 502]
    /\ ck.chunks[1] = [from |-> 1, to |-> 502]
    /\ Len(ck.chunks) > 3

\* C28: every chunk chunkText(text, size, overlap) returns has at most size
\* characters.
C28_ChunkAtMostSize ==
    \A i \in 1 .. Len(ck.chunks) : ChunkLength(ck.chunks[i]) <= ck.chunkSize

\* the last '.' or newline found searching backward from index `edge`
LastTerminator(text, edge) ==
    Max(LastIndexOf(text, ".", edge), LastIndexOf(text, "\n", edge))

\* C24: for a window whose right edge start + size is before the end of the
\* text, chunkText snaps the window's end to just after the last '.' or
\* newline found searching backward from that edge if and only if that
\* character is at or after start + size * 0.5; otherwise the window ends at
\* start + size.
C24_SnapsAtOrAfterHalf ==
    [][(Iterates /\ ck.start + ck.chunkSize < ck.text.len) =>
          LET edge == ck.start + ck.chunkSize
              found == LastTerminator(ck.text, edge)
              end == ck'.start + ck.overlap
          IN  end = IF found >= 0 /\ 2 * found >= 2 * ck.start + ck.chunkSize
                    THEN found + 1
                    ELSE edge]_vars

(***************************************************************************)
(* Properties of findSimilar, under SpecFind.                              *)
(***************************************************************************)
\* a > b and a >= b of JavaScript numbers: false when either is NaN
Gt(a, b) == ~IsNaN(a) /\ ~IsNaN(b) /\ a > b
Ge(a, b) == ~IsNaN(a) /\ ~IsNaN(b) /\ a >= b

Returned == fs.pc = "done" /\ ~fs.out.threw

FindCandidates == Candidates(fs.store, fs.filter)

\* no candidate of the call has the similarity NaN
NumbersOnly ==
    \A i \in 1 .. Len(FindCandidates) :
        ~IsNaN(cosineSimilarity(fs.query, FindCandidates[i].embedding).value)

C7_ExactlyK ==
    Returned =>
        Len(fs.out.results) =
            IF Len(FindCandidates) >= fs.topK THEN fs.topK ELSE Len(FindCandidates)

\* the query and a candidate's embedding differ in length
Mismatched(v) == Length(v.embedding) # Length(fs.query)

\* C21: when one stored record has an embedding whose length differs from
\* the query vector's, findSimilar skips only that record and returns the
\* ranked results of the other candidates; the query as a whole does not fail.
C21_SkipsMismatchedRecord ==
    (/\ fs.pc = "done"
     /\ Cardinality({i \in 1 .. Len(FindCandidates) : Mismatched(FindCandidates[i])}) = 1)
        => ~fs.out.threw

\* C22: a record whose similarity to the query is NaN is a non-match:
\* findSimilar returns no result whose similarity is NaN, and the results
\* that have a similarity are in descending order.
C22_NaNIsNonMatch ==
    Returned =>
        /\ \A i \in 1 .. Len(fs.out.results) : ~IsNaN(fs.out.results[i].similarity)
        /\ \A i, j \in 1 .. Len(fs.out.results) :
              (/\ i < j
               /\ ~IsNaN(fs.out.results[i].similarity)
               /\ ~IsNaN(fs.out.results[j].similarity))
                 => fs.out.results[i].similarity >= fs.out.results[j].similarity

\* the place of a record in the store: its insertion order
Place(id) == CHOOSE i \in 1 .. Len(fs.store) : fs.store[i].id = id

\* the similarity findSimilar computes for a candidate
SimilarityOf(v) == cosineSimilarity(fs.query, v.embedding).value

\* C23: candidates with equal similarity appear in findSimilar's result in
\* their insertion order, and a candidate left out of the result was inserted
\* after every result that has its similarity.
C23_TiesInInsertionOrder ==
    Returned =>
        /\ \A i, j \in 1 .. Len(fs.out.results) :
              (i < j /\ fs.out.results[i].similarity = fs.out.results[j].similarity
                     /\ ~IsNaN(fs.out.results[i].similarity))
                 => Place(fs.out.results[i].id) < Place(fs.out.results[j].id)
        /\ \A i \in 1 .. Len(fs.out.results), k \in 1 .. Len(FindCandidates) :
              (/\ \A j \in 1 .. Len(fs.out.results) :
                      fs.out.results[j].id # FindCandidates[k].id
               /\ SimilarityOf(FindCandidates[k]) = fs.out.results[i].similarity
               /\ ~IsNaN(fs.out.results[i].similarity))
                 => Place(fs.out.results[i].id) < Place(FindCandidates[k].id)

(***************************************************************************)
(* Properties of the fallback quiz, under SpecQuiz.                        *)
(***************************************************************************)
\* a finished generateQuiz call that took the quiz from fallbackQuizGeneration
FallbackQuizDone ==
    /\ call.fn = "generateQuiz"
    /\ call.pc = "done"
    /\ ~call.init \/ call.reply.kind # "answer"

\* ceil(0.6 * n): the least integer c with 5 * c >= 3 * n
Ceil06(n) == CHOOSE c \in 0 .. n : 5 * c >= 3 * n /\ 5 * (c - 1) < 3 * n

\* C13: the fallback quiz for numQuestions = n (n >= 0) has exactly n
\* questions with ids 1..n in increasing order; the first ceil(0.6 * n) are
\* multiple-choice with four options and the first option as answer, the
\* remaining ones short-answer.
C13_FallbackQuiz ==
    FallbackQuizDone =>
        LET questions == call.out.value
            n == call.num
        IN  /\ ~call.out.threw
            /\ Len(questions) = n
            /\ \A i \in 1 .. Len(questions) :
                  /\ questions[i].id = i
                  /\ IF i <= Ceil06(n)
                     THEN /\ questions[i].type = "mcq"
                          /\ questions[i].options = {4}
                          /\ questions[i].answer = 1
                     ELSE /\ questions[i].type = "short"
                          /\ questions[i].options = {}

\* the backend's text did not parse and numQuestions = 5: three
\* multiple-choice questions, then two short-answer ones
C13_Witness ==
    /\ FallbackQuizDone
    /\ call.init
    /\ call.reply = BadJson
    /\ call.num = NumQuestionsDefault
    /\ [i \in 1 .. 5 |-> call.out.value[i].type]
           = <<"mcq", "mcq", "mcq", "short", "short">>

\* C25: every quiz generateQuiz returns, on the backend path as on the
\* fallback path, is a sequence of questions whose ids are the sequence
\* numbers 1, 2, ..., whose type is multiple-choice or short-answer, and whose
\* options are present if and only if the type is multiple-choice.
C25_QuizWellFormed ==
    (call.fn = "generateQuiz" /\ call.pc = "done" /\ ~call.out.threw) =>
        LET questions == call.out.value
        IN  \A i \in 1 .. Len(questions) :
              /\ questions[i].id = i
              /\ questions[i].type \in {"mcq", "short"}
              /\ (questions[i].options # {}) <=> (questions[i].type = "mcq")

(***************************************************************************)
(* Properties of the fallback embedding, under SpecEmbed.                  *)
(***************************************************************************)
\* C14: the fallback embedding guards against a zero norm: for every text,
\* the empty text and every text whose rolling hash is 0 included,
\* fallbackEmbedding divides by no zero and returns well-defined (non-NaN)
\* numbers only.
C14_NoNaN ==
    (call.fn = "fallbackEmbedding" /\ call.pc = "done") =>
        \A i \in 1 .. Len(call.out) : ~IsNaN(call.out[i])

(***************************************************************************)
(* Properties of cosineSimilarity, under SpecCosine.                       *)
(***************************************************************************)
CosineDone == call.fn = "cosineSimilarity" /\ call.pc = "done"

\* C15: cosineSimilarity(a, b) fails with an error whenever the length of a
\* differs from the length of b, and computes no similarity value then.
C15_LengthMismatchThrows ==
    (CosineDone /\ Length(call.vecA) # Length(call.vecB)) => call.out = Threw

\* a call on two arrays that share their first component and differ in
\* length has thrown
C15_Witness ==
    /\ CosineDone
    /\ call.vecA = <<1>>
    /\ call.vecB = <<1, 0>>
    /\ call.out.threw

(***************************************************************************)
(* Properties of the server, under Spec.                                   *)
(***************************************************************************)
RecordsOf(store, d) == {i \in 1 .. Len(store) : store[i].documentId = d}

\* no findSimilar call on the store returns a record of document d
NeverFound(store, d) ==
    \A query \in FindQueries, topK \in FindTopKs, filter \in {{}, {d}} :
        \A out \in findSimilar(store, query, topK, filter) :
            \A i \in 1 .. Len(out.results) : out.results[i].documentId # d

\* C1: once deleteDocument(d) has run on a registered document d, no
\* findSimilar call, with any query vector, topK and filter, returns a record
\* of d; and the delete leaves getStats().totalDocuments exactly one less
\* than it was.
C1_DocumentIsolation ==
    /\ [](\A d \in deleted : NeverFound(vectors, d))
    /\ [][deleted' # deleted =>
             getStats(vectors', documents').totalDocuments
                 = getStats(vectors, documents).totalDocuments - 1]_vars

\* a search answers with results after a document has been deleted
C1_Witness ==
    /\ deleted # {}
    /\ resp.kind = "search"
    /\ resp.status = 200
    /\ resp.body > 0

\* C2: in every reachable state every record of the vector collection has a
\* documentId that is a key of the document mapping.
C2_RecordsHaveDocument ==
    \A i \in 1 .. Len(vectors) : getDocument(documents, vectors[i].documentId) # {}

\* records of one document are stored after another document was deleted
C2_Witness ==
    /\ deleted # {}
    /\ Len(vectors) > 0
    /\ resp.kind = "upload"
    /\ resp.status = 200

\* C3: in every state a handler can read, each document is whole or absent:
\* for every id d, either d has no entry and no record, or d has one entry
\* and exactly numChunks(d) records.
C3_AllOrNothing ==
    \A d \in DocIds :
        LET entry == getDocument(documents, d)
            n == Cardinality(RecordsOf(vectors, d))
        IN  \/ entry = {} /\ n = 0
            \/ \E e \in entry : entry = {e} /\ n = e.numChunks

\* a search has just read the store while an upload had embedded some of its
\* chunks and another document was stored
C3_Witness ==
    /\ resp.kind = "search"
    /\ resp.status = 200
    /\ documents # {}
    /\ \E h \in InFlight :
          h.kind = "upload" /\ Len(h.vecs) > 0 /\ Len(h.vecs) < Len(h.chunks)

\* C4: POST /chat never answers with an error for a non-blank message,
\* whatever the generative backend does and whether or not the message
\* matches a canned topic: its status is 200, or 400 for a blank message.
C4_ChatNeverFails ==
    resp.kind = "chat" => resp.status \in {200, 400}

\* an embedding that is an array of numbers
IsVector(embedding) == embedding # NotAnArray

\* C5: generateEmbedding returns a vector whatever the embedding backend
\* does, so every record processPDF makes has a vector for its embedding, and
\* no upload fails because of the embedding backend.
C5_EmbeddingIsVector ==
    /\ \A i \in 1 .. Len(vectors) : IsVector(vectors[i].embedding)
    /\ \A h \in InFlight :
          \A i \in 1 .. Len(h.vecs) : IsVector(h.vecs[i].embedding)
    /\ ~(resp.kind = "upload" /\ resp.error = "embedding failed")

ReaderKinds == {"search", "chat", "quiz"}

\* C16: a chat, quiz or search request whose message, topic or query is
\* missing, empty or only whitespace is answered at once with a validation
\* error: no handler goes on to embed or generate with such a field, and the
\* step that answers 400 starts no handler and leaves the vector store as it
\* was.
C16_ValidationError ==
    /\ [](\A h \in InFlight :
            (h.kind \in ReaderKinds /\ h.pc = "embed") => TrimStr(h.str) # <<>>)
    /\ [][(resp'.kind \in ReaderKinds /\ resp'.status = 400)
             => /\ handlers' = handlers
                /\ vectors' = vectors
                /\ documents' = documents]_vars

\* a chat request was refused for its message while a document was stored
\* and an upload was in flight
C16_Witness ==
    /\ resp = Response("chat", 400, "Message is required", <<>>)
    /\ documents # {}
    /\ \E h \in InFlight : h.kind = "upload"

StoreChanged == vectors' # vectors \/ documents' # documents

\* the step adds one whole document to the store: its entry and as many
\* records as the entry counts chunks, at least one
AddsWholeDocument ==
    \E e \in documents' \ documents :
        /\ documents' = documents \cup {e}
        /\ e.numChunks > 0
        /\ Len(vectors') = Len(vectors) + e.numChunks
        /\ SubSeq(vectors', 1, Len(vectors)) = vectors
        /\ \A i \in (Len(vectors) + 1) .. Len(vectors') : vectors'[i].documentId = e.id

\* C17: when text extraction fails or yields blank text, ingestion aborts
\* before chunking and the error is surfaced to the caller; whenever processPDF
\* fails, the vector collection and the document mapping are as they were: a
\* step that answers an upload with an error changes neither, no document is
\* registered for a blank text, and an upload changes the store only by
\* adding one whole document.
C17_FailedUploadLeavesStore ==
    /\ [](\A e \in documents : e.numChunks > 0)
    /\ [][/\ (resp'.kind = "upload" /\ resp'.status # 200) => ~StoreChanged
          /\ (StoreChanged /\ deleted' = deleted) => AddsWholeDocument]_vars

\* an upload was refused for its blank text while another upload had
\* embedded some of its chunks
C17_Witness ==
    /\ resp = Response("upload", 500, "PDF contains no extractable text", <<>>)
    /\ \E h \in InFlight : h.kind = "upload" /\ Len(h.vecs) > 0

Registered(docs) == {e.id : e \in docs}

\* C18: deleting a document id that is not registered is answered 404 and
\* leaves the vector collection and the document mapping unchanged; so is the
\* second of two delete requests for the same document.
C18_DeleteUnknown ==
    [][\A docId \in DocIds :
          (DeleteDocument(docId) /\ docId \notin Registered(documents))
             => /\ resp'.status = 404
                /\ vectors' = vectors
                /\ documents' = documents
                /\ deleted' = deleted]_vars

\* a second delete of a deleted document was answered 404 while another
\* document was stored
C18_Witness ==
    /\ resp.kind = "delete"
    /\ resp.status = 404
    /\ resp.body[1] \in deleted
    /\ Len(vectors) > 0

\* handler h, a search, chat or quiz, takes the step that calls findSimilar
Searches(h) == SearchEmbedded(h) \/ ChatEmbedded(h) \/ QuizEmbedded(h)

\* C19: a search, chat or quiz request that filters by a docId naming no
\* registered document (never uploaded, or deleted) is answered with not
\* found (404), not as a successful request: the step in which its handler
\* searches the store answers 404.
C19_UnknownFilterNotFound ==
    [][\A h \in InFlight :
          (/\ Searches(h)
           /\ h.filter # {}
           /\ h.filter \cap Registered(documents) = {})
             => resp'.status = 404]_vars

\* C26: deleteDocument(d) changes nothing that belongs to other documents:
\* the records of the other documents stay, with the same content and in the
\* same relative order, every other document entry is unchanged, and
\* totalVectors decreases by exactly the number of records d had.
C26_DeleteFrame ==
    [][\A d \in DocIds :
          (d \notin deleted /\ deleted' = deleted \cup {d}) =>
             LET other(v) == v.documentId # d
             IN  /\ vectors' = SelectSeq(vectors, other)
                 /\ {e \in documents' : e.id # d} = {e \in documents : e.id # d}
                 /\ getStats(vectors', documents').totalVectors
                       = getStats(vectors, documents).totalVectors
                           - Cardinality(RecordsOf(vectors, d))]_vars

\* document 1 has just been deleted and the two records of another document
\* are what the store holds
C26_Witness ==
    /\ resp = Response("delete", 200, "", <<1>>)
    /\ Len(vectors) = 2
    /\ \E e \in documents : e.id # 1 /\ e.numChunks = 2

\* the path that produced an embedding: the vectors the backend answers with
\* and the vectors fallbackEmbedding makes are disjoint sets in the model
FromBackend(embedding) == embedding \in BackendVectors \cup {NotAnArray}
FromFallback(embedding) ==
    \E hash \in {<<0, 0>>, <<0, 1>>, <<0, 2>>} : embedding = fallbackEmbedding(hash)

\* C27: every similarity findSimilar computes compares two embeddings made
\* by the same embedding path: in every reachable state the store never holds
\* records embedded by the real backend together with records embedded by the
\* fallback, even when the embedding backend fails intermittently.
C27_OneEmbeddingPath ==
    ~(\E i, j \in 1 .. Len(vectors) :
         FromBackend(vectors[i].embedding) /\ FromFallback(vectors[j].embedding))

(***************************************************************************)
(* Properties of the document list view, under SpecList.                   *)
(***************************************************************************)
Shown == {call.documents[i] : i \in 1 .. Len(call.documents)}

\* C29: in the document list view, once a delete request for document d has
\* succeeded, d is not shown in the list again until a refresh, for every
\* interleaving of several delete requests in flight at the same time.
C29_DeletedStaysHidden ==
    call.fn = "DocumentList" => call.succeeded \cap Shown = {}

(***************************************************************************)
(* Properties of the quiz view, under SpecScore.                           *)
(***************************************************************************)
\* C30: the score shown after submitting a quiz is an integer between 0 and
\* 100, for every displayed quiz, one with zero questions included, and
\* every set of user answers.
C30_ScoreIsPercentage ==
    (call.fn = "QuizUI" /\ call.showResults)
        => getScore(call.questions, call.userAnswers) \in 0 .. 100

(***************************************************************************)
(* Properties of the server's progress, under SpecLive.                    *)
(***************************************************************************)
\* C20: writes to the optional durable store never block the primary
\* response: an upload in flight is eventually answered, even if its mirror
\* write never completes.
C20_ResponseEventuallySent ==
    (\E h \in InFlight : h.kind = "upload") ~> (resp.kind = "upload")

=============================================================================
